---- MODULE Spec2Model ----
(***************************************************************************)
(* Model of the geometry-joined broadband pipeline of catfccbdc:           *)
(*   merge.py     process_bdc_file, process_chunk, merge_data              *)
(*   writeout.py  transform_bdc_locations,                                 *)
(*                write_geojson_and_convert_to_gpkg (the assembly loop)    *)
(* One state (territory) is processed: the availability rows and the block *)
(* geometry set are the inputs, merge_data attaches the deduplicated rows  *)
(* to each block and the assembly loop turns them into block attributes.   *)
(*                                                                         *)
(* Encodings: GEOID20 / block_geoid are fixed-width digit strings and are  *)
(* modelled by their numeric value (same order); brand names are modelled  *)
(* by their rank in string order; a download speed that int() rejects      *)
(* (NaN, text) is the value NaN below.                                     *)
(*                                                                         *)
(* main.py expands the --state tokens args_state into states_to_process    *)
(* and runs the pipeline for each of these states in turn; the CSV program *)
(* aggstatedata.py loops over its own list selected_states.  A token is    *)
(* modelled by the parts str.split('..') cuts it into.  state_dirs is what *)
(* the programs find on disk for a state; every state whose files are      *)
(* readable holds the rows bdc_df and the blocks tabblock_df.              *)
(***************************************************************************)
EXTENDS Integers, Sequences, FiniteSets, TLC

VARIABLES bdc_df, tabblock_df, merged_data, pc, output_data, agg_pc,
          states_to_process, state_dirs, state_i, runs, agg_i, agg_runs,
          lookup_code, lookup_result, args_state, selected_states

vars == <<bdc_df, tabblock_df, merged_data, pc, output_data, agg_pc,
          states_to_process, state_dirs, state_i, runs, agg_i, agg_runs,
          lookup_code, lookup_result, args_state, selected_states>>

(***************************************************************************)
(* Bounds of the model.                                                    *)
(***************************************************************************)
MaxRows == 2

MaxHousing == 3

\* the longest list of requested states
MaxStates == 2

(***************************************************************************)
(* Reference tables.                                                       *)
(***************************************************************************)
\* code -> (abbreviation, counts toward classification).  The module
\* `constant` imported by src/src is not part of the sources; the codes and
\* abbreviations are those of src/constants.py, the flags follow the
\* specification (satellite, mobile and "other" do not count).
TECH_ABBR_MAPPING ==
    (10 :> <<"Copper", TRUE>>) @@ (40 :> <<"Cable", TRUE>>) @@
    (50 :> <<"Fiber", TRUE>>) @@ (60 :> <<"GeoSat", FALSE>>) @@
    (61 :> <<"NGeoSt", FALSE>>) @@ (70 :> <<"UnlFWA", TRUE>>) @@
    (71 :> <<"LicFWA", TRUE>>) @@ (72 :> <<"LBRFWA", TRUE>>) @@
    (0 :> <<"Other", FALSE>>) @@ (300 :> <<"3G", FALSE>>) @@
    (400 :> <<"4GLTE", FALSE>>) @@ (500 :> <<"5GNR", FALSE>>)

\* the abbreviations of the table: {abbr for abbr, _ in TECH_ABBR_MAPPING.values()}
TechAbbrs == {TECH_ABBR_MAPPING[c][1] : c \in DOMAIN TECH_ABBR_MAPPING}

\* holder_mapping as load_holder_mapping builds it: keys are str(provider_id).
\* Providers 1 and 2 belong to the same holding company.
holder_mapping == ("1" :> "H1") @@ ("2" :> "H1") @@ ("3" :> "H2")

\* str() of a provider id
Str(n) == <<"0", "1", "2", "3", "4", "5", "6", "7", "8", "9">>[n + 1]

\* a max_advertised_download_speed that int() cannot convert
NaN == -1

\* Python's None for a technology entry
None == [none |-> TRUE]

\* the geometry set of the state: GEOID20 values
Blocks == {1, 2}

Max(a, b) == IF a >= b THEN a ELSE b

\* string order of the customer-class codes, used by the 'max' aggregation
CodeRank(c) == CASE c = "B" -> 1 [] c = "R" -> 2 [] c = "X" -> 3

MaxCode(a, b) == IF CodeRank(a) >= CodeRank(b) THEN a ELSE b

(***************************************************************************)
(* Python values of a technology cell, and int() on them                   *)
(***************************************************************************)
\* an int, a str (its characters), a float (integral, or nan) and None
PyInt(n) == [type |-> "int", int |-> n, chars |-> <<>>]

PyStr(cs) == [type |-> "str", int |-> 0, chars |-> cs]

PyFloat(n) == [type |-> "float", int |-> n, chars |-> <<>>]

PyNaN == [type |-> "float", int |-> 0, chars |-> <<"n", "a", "n">>]

PyNone == [type |-> "NoneType", int |-> 0, chars |-> <<>>]

Digits == <<"0", "1", "2", "3", "4", "5", "6", "7", "8", "9">>

IsDigit(c) == \E d \in 1..10 : Digits[d] = c

DigitVal(c) == (CHOOSE d \in 1..10 : Digits[d] = c) - 1

RECURSIVE Strip(_)
\* str.strip() of the blanks at both ends
Strip(cs) ==
    IF cs = <<>> THEN cs
    ELSE IF Head(cs) = " " THEN Strip(Tail(cs))
    ELSE IF cs[Len(cs)] = " " THEN Strip(SubSeq(cs, 1, Len(cs) - 1))
    ELSE cs

RECURSIVE ParseDigits(_)
\* the value of a non-empty string of decimal digits
ParseDigits(cs) ==
    IF Len(cs) = 1 THEN DigitVal(cs[1])
    ELSE 10 * ParseDigits(SubSeq(cs, 1, Len(cs) - 1)) + DigitVal(cs[Len(cs)])

\* int(x): the integer, or the exception int() raises
py_int(x) ==
    CASE x.type = "int" -> [raised |-> "no", int |-> x.int]
      [] x.type = "float" ->
            IF x = PyNaN THEN [raised |-> "ValueError", int |-> 0]
            ELSE [raised |-> "no", int |-> x.int]
      [] x.type = "str" ->
            LET t == Strip(x.chars)
                signed == t # <<>> /\ Head(t) \in {"+", "-"}
                body == IF signed THEN Tail(t) ELSE t
            IN IF body # <<>> /\ \A i \in 1..Len(body) : IsDigit(body[i])
               THEN [raised |-> "no",
                     int |-> IF signed /\ Head(t) = "-" THEN 0 - ParseDigits(body)
                             ELSE ParseDigits(body)]
               ELSE [raised |-> "ValueError", int |-> 0]
      [] x.type = "NoneType" -> [raised |-> "TypeError", int |-> 0]

(***************************************************************************)
(* bdcfunctions.py: lookups                                                *)
(***************************************************************************)
get_tech_abbr_CatchesValueError(tech_code) ==
    LET c == py_int(tech_code)
    IN IF c.raised = "ValueError" THEN [raised |-> "no", value |-> "Unknown"]
       ELSE IF c.raised # "no" THEN [raised |-> c.raised, value |-> ""]
       ELSE IF c.int \notin DOMAIN TECH_ABBR_MAPPING
       THEN [raised |-> "no", value |-> "Unknown"]
       ELSE [raised |-> "no", value |-> TECH_ABBR_MAPPING[c.int][1]]

\* the value returned, or the exception that leaves the function
get_tech_abbr(tech_code) ==
    LET c == py_int(tech_code)
    IN IF c.raised \in {"ValueError", "TypeError"}
       THEN [raised |-> "no", value |-> "Unknown"]
       ELSE IF c.raised # "no" THEN [raised |-> c.raised, value |-> ""]
       ELSE IF c.int \notin DOMAIN TECH_ABBR_MAPPING
       THEN [raised |-> "no", value |-> "Unknown"]
       ELSE [raised |-> "no", value |-> TECH_ABBR_MAPPING[c.int][1]]

get_holder_name(provider_id, mapping) ==
    IF Str(provider_id) \in DOMAIN mapping
    THEN mapping[Str(provider_id)]
    ELSE "Unknown"

(***************************************************************************)
(* merge.py: process_bdc_file adds tech_abbr and holding_company           *)
(***************************************************************************)
\* lines 34-43: the technology column mapped through get_tech_abbr; an
\* exception of the mapping sets the whole column to "Unknown"
tech_abbr_column(rows) ==
    IF \E i \in 1..Len(rows) : get_tech_abbr(PyInt(rows[i].technology)).raised # "no"
    THEN [i \in 1..Len(rows) |-> "Unknown"]
    ELSE [i \in 1..Len(rows) |-> get_tech_abbr(PyInt(rows[i].technology)).value]

process_bdc_file_DropsUnknown(rows, mapping) ==
    LET kept == SelectSeq(rows, LAMBDA r : Str(r.provider_id) \in DOMAIN mapping)
    IN [i \in 1..Len(kept) |->
          kept[i] @@ [tech_abbr |-> tech_abbr_column(kept)[i],
                      holding_company |-> get_holder_name(kept[i].provider_id, mapping)]]

process_bdc_file(rows, mapping) ==
    [i \in 1..Len(rows) |->
        rows[i] @@ [tech_abbr |-> tech_abbr_column(rows)[i],
                    holding_company |-> get_holder_name(rows[i].provider_id, mapping)]]

(***************************************************************************)
(* merge.py: process_chunk, the groupby / agg('max') of one block          *)
(***************************************************************************)
\* the grouping key of a row
GroupKey(r) ==
    <<r.block_geoid, r.technology, r.tech_abbr, r.provider_id,
      r.holding_company, r.brand_name, r.location_id>>

\* groupby sorts the groups by key; tech_abbr and holding_company are
\* functions of technology and provider_id and never break a tie
KeyLess(k1, k2) ==
    \/ k1[1] < k2[1]
    \/ k1[1] = k2[1] /\ k1[2] < k2[2]
    \/ k1[1] = k2[1] /\ k1[2] = k2[2] /\ k1[4] < k2[4]
    \/ k1[1] = k2[1] /\ k1[2] = k2[2] /\ k1[4] = k2[4] /\ k1[6] < k2[6]
    \/ k1[1] = k2[1] /\ k1[2] = k2[2] /\ k1[4] = k2[4] /\ k1[6] = k2[6] /\ k1[7] < k2[7]

RECURSIVE SortKeys(_)
SortKeys(S) ==
    IF S = {} THEN <<>>
    ELSE LET m == CHOOSE k \in S : \A o \in S \ {k} : KeyLess(k, o)
         IN <<m>> \o SortKeys(S \ {m})

RECURSIVE AggMax(_, _, _)
\* the 'max' of column f over the rows of idx (a non-empty set of indices)
AggMax(rows, idx, f) ==
    LET i == CHOOSE j \in idx : TRUE
    IN IF idx = {i} THEN rows[i][f]
       ELSE IF f = "business_residential_code"
            THEN MaxCode(rows[i][f], AggMax(rows, idx \ {i}, f))
            ELSE Max(rows[i][f], AggMax(rows, idx \ {i}, f))

process_chunk(chunk) ==
    LET keys == SortKeys({GroupKey(chunk[i]) : i \in 1..Len(chunk)})
        Members(k) == {i \in 1..Len(chunk) : GroupKey(chunk[i]) = k}
    IN [n \in 1..Len(keys) |->
          LET k == keys[n] IN
          [block_geoid |-> k[1], technology |-> k[2], tech_abbr |-> k[3],
           provider_id |-> k[4], holding_company |-> k[5], brand_name |-> k[6],
           location_id |-> k[7],
           max_advertised_download_speed |->
               AggMax(chunk, Members(k), "max_advertised_download_speed"),
           max_advertised_upload_speed |->
               AggMax(chunk, Members(k), "max_advertised_upload_speed"),
           low_latency |-> AggMax(chunk, Members(k), "low_latency"),
           business_residential_code |->
               AggMax(chunk, Members(k), "business_residential_code")]]

(***************************************************************************)
(* merge.py: merge_data                                                    *)
(***************************************************************************)
RECURSIVE SortFeatures(_)
\* tabblock_geojson['features'].sort(key=GEOID20)
SortFeatures(fs) ==
    IF fs = <<>> THEN <<>>
    ELSE LET i == CHOOSE j \in 1..Len(fs) :
                    \A o \in 1..Len(fs) :
                        fs[j].properties.GEOID20 <= fs[o].properties.GEOID20
         IN <<fs[i]>> \o
            SortFeatures([n \in 1..(Len(fs) - 1) |-> IF n < i THEN fs[n] ELSE fs[n + 1]])

BlockRows_AllRows(rows, b) == rows

\* the rows of one block, in the order of the frame
BlockRows(rows, b) == SelectSeq(rows, LAMBDA r : r.block_geoid = b)

\* bdc_locations_dict.get(geoid20, []) after the per-block process_chunk
bdc_locations_of(rows, mapping, b) ==
    process_chunk(BlockRows(process_bdc_file(rows, mapping), b))

merge_data_SkipsEmpty(tabblock, rows, mapping) ==
    LET sorted == SortFeatures(tabblock)
    IN [n \in 1..Len(sorted) |->
          IF bdc_locations_of(rows, mapping, sorted[n].properties.GEOID20) = <<>>
          THEN sorted[n]
          ELSE [sorted[n] EXCEPT !.properties =
                  sorted[n].properties @@
                  [bdc_locations |->
                      bdc_locations_of(rows, mapping, sorted[n].properties.GEOID20)]]]

merge_data_ReusesFeatures(tabblock, rows, mapping) ==
    LET sorted == SortFeatures(tabblock)
    IN IF merged_data # <<>> THEN merged_data
       ELSE [n \in 1..Len(sorted) |->
               [sorted[n] EXCEPT !.properties =
                   sorted[n].properties @@
                   [bdc_locations |->
                       bdc_locations_of(rows, mapping, sorted[n].properties.GEOID20)]]]

merge_data(tabblock, rows, mapping) ==
    LET sorted == SortFeatures(tabblock)
    IN [n \in 1..Len(sorted) |->
          [sorted[n] EXCEPT !.properties =
              sorted[n].properties @@
              [bdc_locations |->
                  bdc_locations_of(rows, mapping, sorted[n].properties.GEOID20)]]]

(***************************************************************************)
(* writeout.py: transform_bdc_locations                                    *)
(***************************************************************************)
\* the empty technology entry created at lines 39-50
NewEntry(location, tech_abbr) ==
    [holding_company |-> <<>>, locations |-> <<>>, provider_id |-> <<>>,
     brand_name |-> <<>>, technology |-> location.technology,
     technology_description |-> tech_abbr,
     max_advertised_download_speed |-> <<>>,
     max_advertised_upload_speed |-> <<>>,
     low_latency |-> <<>>, business_residential_code |-> <<>>]

\* list.index(x): the first position of x
IndexOf(list, x) == CHOOSE i \in 1..Len(list) : list[i] = x /\ \A j \in 1..(i - 1) : list[j] # x

InList(list, x) == \E i \in 1..Len(list) : list[i] = x

AddHolder_AlwaysAppends(entry, location) ==
    LET e1 == [entry EXCEPT
                  !.holding_company = Append(@, location.holding_company),
                  !.locations = Append(@, 0),
                  !.provider_id = Append(@, location.provider_id),
                  !.brand_name = Append(@, location.brand_name),
                  !.max_advertised_download_speed =
                      Append(@, location.max_advertised_download_speed),
                  !.max_advertised_upload_speed =
                      Append(@, location.max_advertised_upload_speed),
                  !.low_latency = Append(@, location.low_latency),
                  !.business_residential_code =
                      Append(@, location.business_residential_code)]
    IN [e1 EXCEPT !.locations[Len(e1.locations)] = @ + 1]

AddHolder_ProviderEveryRecord(entry, location) ==
    LET holding_company == location.holding_company
        e1 == IF ~InList(entry.holding_company, holding_company)
              THEN [entry EXCEPT
                      !.holding_company = Append(@, holding_company),
                      !.locations = Append(@, 0),
                      !.brand_name = Append(@, location.brand_name),
                      !.max_advertised_download_speed =
                          Append(@, location.max_advertised_download_speed),
                      !.max_advertised_upload_speed =
                          Append(@, location.max_advertised_upload_speed),
                      !.low_latency = Append(@, location.low_latency),
                      !.business_residential_code =
                          Append(@, location.business_residential_code)]
              ELSE entry
        e2 == [e1 EXCEPT !.provider_id = Append(@, location.provider_id)]
        index == IndexOf(e2.holding_company, holding_company)
    IN [e2 EXCEPT !.locations[index] = @ + 1]

\* lines 51-61: insert the holder once, then count the record
AddHolder(entry, location) ==
    LET holding_company == location.holding_company
        e1 == IF ~InList(entry.holding_company, holding_company)
              THEN [entry EXCEPT
                      !.holding_company = Append(@, holding_company),
                      !.locations = Append(@, 0),
                      !.provider_id = Append(@, location.provider_id),
                      !.brand_name = Append(@, location.brand_name),
                      !.max_advertised_download_speed =
                          Append(@, location.max_advertised_download_speed),
                      !.max_advertised_upload_speed =
                          Append(@, location.max_advertised_upload_speed),
                      !.low_latency = Append(@, location.low_latency),
                      !.business_residential_code =
                          Append(@, location.business_residential_code)]
              ELSE entry
        index == IndexOf(e1.holding_company, holding_company)
    IN [e1 EXCEPT !.locations[index] = @ + 1]

UpdateMaxSpeeds_PerClass(location_max_speeds, location) ==
    LET key == <<location.location_id, location.business_residential_code>>
        speed == location.max_advertised_download_speed
    IN IF key \notin DOMAIN location_max_speeds
       THEN (key :> <<speed, location.business_residential_code,
                      location.technology>>) @@ location_max_speeds
       ELSE (key :> <<Max(location_max_speeds[key][1], speed),
                      location.business_residential_code,
                      location.technology>>) @@ location_max_speeds

UpdateMaxSpeeds_CodeOfMax(location_max_speeds, location) ==
    LET location_id == location.location_id
        speed == location.max_advertised_download_speed
    IN IF location_id \notin DOMAIN location_max_speeds
       THEN (location_id :> <<speed, location.business_residential_code,
                              location.technology>>) @@ location_max_speeds
       ELSE IF speed > location_max_speeds[location_id][1]
       THEN (location_id :> <<speed, location.business_residential_code,
                              location.technology>>) @@ location_max_speeds
       ELSE location_max_speeds

UpdateMaxSpeeds_RunningMax(location_max_speeds, location) ==
    LET location_id == location.location_id
        seen == {location_max_speeds[k][1] : k \in DOMAIN location_max_speeds}
        best == CHOOSE s \in seen \cup {location.max_advertised_download_speed} :
                    \A t \in seen \cup {location.max_advertised_download_speed} : s >= t
    IN (location_id :> <<best, location.business_residential_code,
                         location.technology>>) @@ location_max_speeds

\* lines 32-35: the per-location (speed, class code, technology) triple
UpdateMaxSpeeds(location_max_speeds, location) ==
    LET location_id == location.location_id
        speed == location.max_advertised_download_speed
    IN IF location_id \notin DOMAIN location_max_speeds
       THEN (location_id :> <<speed, location.business_residential_code,
                              location.technology>>) @@ location_max_speeds
       ELSE (location_id :> <<Max(location_max_speeds[location_id][1], speed),
                              location.business_residential_code,
                              location.technology>>) @@ location_max_speeds

\* one iteration of the loop of lines 15-61; raised = "KeyError" once
\* tech_map[tech_abbr] fails, after which nothing more is executed
LoopBody(acc, location) ==
    LET tech_code == location.technology
        tech_abbr == IF tech_code \in DOMAIN TECH_ABBR_MAPPING
                     THEN TECH_ABBR_MAPPING[tech_code][1]
                     ELSE "Unknown"
    IN IF acc.raised # "no" THEN acc
       ELSE IF location.max_advertised_download_speed = NaN THEN acc
       ELSE LET ids == acc.location_ids \cup {location.location_id}
                lms == UpdateMaxSpeeds(acc.location_max_speeds, location)
            IN IF tech_abbr \notin DOMAIN acc.tech_map
               THEN [acc EXCEPT !.location_ids = ids, !.location_max_speeds = lms,
                                !.raised = "KeyError"]
               ELSE LET entry == IF acc.tech_map[tech_abbr] = None
                                 THEN NewEntry(location, tech_abbr)
                                 ELSE acc.tech_map[tech_abbr]
                    IN [acc EXCEPT !.location_ids = ids, !.location_max_speeds = lms,
                                   !.tech_map[tech_abbr] = AddHolder(entry, location)]

RECURSIVE RunLoop(_, _, _)
RunLoop(acc, bdc_locations, n) ==
    IF n > Len(bdc_locations) THEN acc
    ELSE RunLoop(LoopBody(acc, bdc_locations[n]), bdc_locations, n + 1)

Aggregate_EmptyEntries(bdc_locations) ==
    RunLoop([tech_map |-> [a \in TechAbbrs |-> NewEntry([technology |-> 0], a)],
             location_ids |-> {}, location_max_speeds |-> <<>>, raised |-> "no"],
            bdc_locations, 1)

\* the state of the function after the loop over bdc_locations
Aggregate(bdc_locations) ==
    RunLoop([tech_map |-> [a \in TechAbbrs |-> None], location_ids |-> {},
             location_max_speeds |-> <<>>, raised |-> "no"],
            bdc_locations, 1)

\* line 64: keep the locations whose recorded technology counts
filtered_max_speeds(location_max_speeds) ==
    {k \in DOMAIN location_max_speeds :
        TECH_ABBR_MAPPING[location_max_speeds[k][3]][2]}

\* lines 67-74: the locations of one customer class
class_speeds(location_max_speeds, code) ==
    {k \in filtered_max_speeds(location_max_speeds) : location_max_speeds[k][2] = code}

\* the three tier predicates of lines 77-89
IsUnserved_Inclusive(speed) == speed <= 25

IsUnserved(speed) == speed < 25

IsUnderserved(speed) == 25 <= speed /\ speed < 100

IsServed(speed) == speed >= 100

\* lines 76-89: sum(1 for speed in ...values() if ...) for one class
TierCounts(location_max_speeds, code) ==
    LET ks == class_speeds(location_max_speeds, code)
    IN [unserved |-> Cardinality({k \in ks : IsUnserved(location_max_speeds[k][1])}),
        underserved |-> Cardinality({k \in ks : IsUnderserved(location_max_speeds[k][1])}),
        served |-> Cardinality({k \in ks : IsServed(location_max_speeds[k][1])})]

Reconcile_DropsUnderserved(res, housing20) ==
    IF res.unserved + res.underserved + res.served < housing20
    THEN [res EXCEPT !.unserved = housing20 - res.served]
    ELSE res

Reconcile_Reversed(res, housing20) ==
    IF res.unserved + res.underserved + res.served > housing20
    THEN [res EXCEPT !.unserved = housing20 - res.underserved - res.served]
    ELSE res

Reconcile_Unconditional(res, housing20) ==
    [res EXCEPT !.unserved = housing20 - res.underserved - res.served]

Reconcile_SetsHousing(res, housing20) ==
    IF res.unserved + res.underserved + res.served < housing20
    THEN [res EXCEPT !.unserved = housing20]
    ELSE res

\* lines 91-93: the adjustment of residential_unserved_count
Reconcile(res, housing20) ==
    IF res.unserved + res.underserved + res.served < housing20
    THEN [res EXCEPT !.unserved = housing20 - res.underserved - res.served]
    ELSE res

\* the value returned by transform_bdc_locations, or the exception it raises
transform_bdc_locations(bdc_locations, housing20) ==
    LET acc == Aggregate(bdc_locations)
        lms == acc.location_max_speeds
    IN IF acc.raised # "no" THEN [raised |-> acc.raised]
       ELSE IF \E k \in DOMAIN lms : lms[k][3] \notin DOMAIN TECH_ABBR_MAPPING
       THEN [raised |-> "KeyError"]
       ELSE [raised |-> "no",
             tech_map |-> acc.tech_map,
             total_locations |-> Cardinality(acc.location_ids),
             residential |-> Reconcile(TierCounts(lms, "R"), housing20),
             residential_and_business |-> TierCounts(lms, "X"),
             business |-> TierCounts(lms, "B")]

(***************************************************************************)
(* writeout.py: the assembly loop of write_geojson_and_convert_to_gpkg     *)
(***************************************************************************)
DelKey_KeepsKey(properties, key) == properties

\* del properties[key]
DelKey(properties, key) == [k \in DOMAIN properties \ {key} |-> properties[k]]

\* lines 123-132: the ten summary attributes
CountAttrs(total, res, rab, bus) ==
    [Total_Locations |-> total,
     Residential_Unserved |-> res.unserved,
     Residential_Underserved |-> res.underserved,
     Residential_Served |-> res.served,
     Residential_and_Business_Unserved |-> rab.unserved,
     Residential_and_Business_Underserved |-> rab.underserved,
     Residential_and_Business_Served |-> rab.served,
     Business_Unserved |-> bus.unserved,
     Business_Underserved |-> bus.underserved,
     Business_Served |-> bus.served]

ZeroTier == [unserved |-> 0, underserved |-> 0, served |-> 0]

\* feature['properties'].get('HOUSING20', 0)
Housing20Of(properties) ==
    IF "HOUSING20" \in DOMAIN properties THEN properties.HOUSING20 ELSE 0

\* does the body of the loop raise on this feature ?
FeatureRaises(feature) ==
    /\ "bdc_locations" \in DOMAIN feature.properties
    /\ transform_bdc_locations(feature.properties.bdc_locations,
                               Housing20Of(feature.properties)).raised # "no"

\* line 116 alone: what is left of a feature on which the body raised
SetId(feature) ==
    [geometry |-> feature.geometry, properties |-> feature.properties,
     id |-> feature.properties.GEOID20]

AssembleFeature_NoTechMap(feature) ==
    LET properties == feature.properties
        housing20 == Housing20Of(properties)
    IN IF "bdc_locations" \in DOMAIN properties
       THEN LET t == transform_bdc_locations(properties.bdc_locations, housing20)
            IN [SetId(feature) EXCEPT !.properties =
                  DelKey(CountAttrs(t.total_locations, t.residential,
                                    t.residential_and_business, t.business)
                         @@ [a \in {x \in TechAbbrs : t.tech_map[x] # None} |-> t.tech_map[a]]
                         @@ properties, "bdc_locations")]
       ELSE [SetId(feature) EXCEPT !.properties =
                  CountAttrs(0, ZeroTier, ZeroTier, ZeroTier)
                  @@ [a \in TechAbbrs |-> None] @@ properties]

\* lines 116-147: one iteration of the loop, on a feature that does not raise
AssembleFeature(feature) ==
    LET properties == feature.properties
        housing20 == Housing20Of(properties)
    IN IF "bdc_locations" \in DOMAIN properties
       THEN LET t == transform_bdc_locations(properties.bdc_locations, housing20)
            IN [SetId(feature) EXCEPT !.properties =
                  DelKey(CountAttrs(t.total_locations, t.residential,
                                    t.residential_and_business, t.business)
                         @@ t.tech_map @@ properties, "bdc_locations")]
       ELSE [SetId(feature) EXCEPT !.properties =
                  CountAttrs(0, ZeroTier, ZeroTier, ZeroTier)
                  @@ [a \in TechAbbrs |-> None] @@ properties]

\* the position of the first feature on which the body raises, 0 if none
FirstRaising(features) ==
    IF \E n \in 1..Len(features) : FeatureRaises(features[n])
    THEN CHOOSE n \in 1..Len(features) :
            /\ FeatureRaises(features[n])
            /\ \A m \in 1..(n - 1) : ~FeatureRaises(features[m])
    ELSE 0

\* lines 115-147: the loop mutates merged_data in place and stops at the
\* first exception
AssembleAll(features) ==
    LET stop == FirstRaising(features)
    IN [n \in 1..Len(features) |->
          IF stop = 0 \/ n < stop THEN AssembleFeature(features[n])
          ELSE IF n = stop THEN SetId(features[n])
          ELSE features[n]]

(***************************************************************************)
(* aggstatedata.py: the CSV aggregator (steps 6 to 8 of a state)           *)
(***************************************************************************)
\* provider_df as a dictionary: keys are the integer provider ids
provider_id_to_name == (1 :> "H1") @@ (2 :> "H1") @@ (3 :> "H2")

\* line 131: provider_id_to_name.get(int(x), str(x)), x the zero-filled id
provider_name(x) ==
    IF x \in DOMAIN provider_id_to_name
    THEN provider_id_to_name[x]
    ELSE "00000" \o Str(x)

RECURSIVE Unique(_)
\* Series.unique().tolist(): the values in order of first appearance
Unique(list) ==
    IF list = <<>> THEN <<>>
    ELSE LET front == Unique(SubSeq(list, 1, Len(list) - 1))
             last == list[Len(list)]
         IN IF InList(front, last) THEN front ELSE Append(front, last)

\* line 122: technology.astype(int).map(tech_code_to_abbr), NaN when unmapped
technology_abbr(technology) ==
    IF technology \in DOMAIN TECH_ABBR_MAPPING
    THEN TECH_ABBR_MAPPING[technology][1]
    ELSE "NaN"

\* line 159: the providers of one block and technology
providers_of(rows, block_geoid, tech_abbr) ==
    LET sel == SelectSeq(rows, LAMBDA r : r.block_geoid = block_geoid
                                          /\ technology_abbr(r.technology) = tech_abbr)
    IN Unique([i \in 1..Len(sel) |-> provider_name(sel[i].provider_id)])

RECURSIVE SortInts(_)
SortInts(S) ==
    IF S = {} THEN <<>>
    ELSE LET m == CHOOSE x \in S : \A y \in S : x <= y
         IN <<m>> \o SortInts(S \ {m})

\* lines 153-161: one row per block of the frame, groups in key order
aggregate_rows(rows) ==
    LET groups == SortInts({rows[i].block_geoid : i \in 1..Len(rows)})
    IN [n \in 1..Len(groups) |->
          [block_geoid |-> groups[n],
           provider_name |-> [a \in TechAbbrs |-> providers_of(rows, groups[n], a)]]]

(***************************************************************************)
(* main.py: expand_state_ranges                                            *)
(***************************************************************************)
\* [state[1] for state in STATES_AND_TERRITORIES]: the head of the table
state_abbrs == <<"AL", "AK", "AZ">>

Slice_ExclusiveEnd(list, from, to) == [n \in 1..(to - from) |-> list[from + n - 1]]

\* state_abbrs[start_index:end_index + 1], indices counted from 1 here
Slice(list, from, to) == [n \in 1..(to - from + 1) |-> list[from + n - 1]]

\* one iteration of the loop of lines 43-56 on the token state, given by
\* its parts: one part when the token holds no '..', two for 'A..B', more
\* when '..' occurs more than once (start, end = ... cannot unpack)
ExpandToken(acc, state) ==
    IF acc.raised # "no" THEN acc
    ELSE IF Len(state) > 1
    THEN IF Len(state) # 2 THEN [acc EXCEPT !.raised = "ValueError"]
         ELSE LET start == state[1]
                  end == state[2]
              IN IF ~InList(state_abbrs, start) \/ ~InList(state_abbrs, end)
                 THEN [acc EXCEPT !.raised = "ValueError"]
                 ELSE IF IndexOf(state_abbrs, start) > IndexOf(state_abbrs, end)
                 THEN [acc EXCEPT !.raised = "ValueError"]
                 ELSE [acc EXCEPT !.value =
                          @ \o Slice(state_abbrs, IndexOf(state_abbrs, start),
                                     IndexOf(state_abbrs, end))]
    ELSE IF ~InList(state_abbrs, state[1])
         THEN [acc EXCEPT !.raised = "ValueError"]
         ELSE [acc EXCEPT !.value = Append(@, state[1])]

RECURSIVE ExpandFrom(_, _, _)
ExpandFrom(acc, states, n) ==
    IF n > Len(states) THEN acc
    ELSE ExpandFrom(ExpandToken(acc, states[n]), states, n + 1)

\* the expanded list, or the exception that leaves the function
expand_state_ranges(states) == ExpandFrom([raised |-> "no", value |-> <<>>], states, 1)

(***************************************************************************)
(* Inputs                                                                  *)
(***************************************************************************)
\* the availability rows over the given field values
RowSet(blocks, techs, provs, brands, locs, downs, ups, lats, codes) ==
    [block_geoid : blocks, technology : techs, provider_id : provs,
     brand_name : brands, location_id : locs,
     max_advertised_download_speed : downs,
     max_advertised_upload_speed : ups, low_latency : lats,
     business_residential_code : codes]

SeqsUpTo(S, n) == UNION {[1..k -> S] : k \in 0..n}

\* a block of the geometry set as read from the tabblock file
TabFeature(b, h) ==
    [geometry |-> <<"geom", b>>, properties |-> [GEOID20 |-> b, HOUSING20 |-> h]]

\* the geometry set, in file order (not sorted), with the given housing counts
TabblocksWith(H1, H2) == {<<TabFeature(2, h2), TabFeature(1, h1)>> : h1 \in H1, h2 \in H2}

\* the states a run may be asked for (two of STATES_AND_TERRITORIES)
States == {"AL", "AK"}

\* the files of the states of the table that States leaves out are readable
OtherOk == [s \in {state_abbrs[i] : i \in 1..Len(state_abbrs)} \ States |-> "ok"]

\* what the programs find on disk for a state: readable files ("ok"), no
\* directory or no files ("missing"), a file that cannot be read ("corrupt"),
\* readable files one of which carries a date that is not of the form
\* 03dec2024 in its name ("baddate")
DirConditions == {"ok", "missing", "corrupt", "baddate"}

AllOk == [s \in States |-> "ok"] @@ OtherOk

\* no lookup has been made yet
Pending == [raised |-> "pending", value |-> ""]

\* the --state tokens that name the states of list one by one
TokensOf(list) == [i \in 1..Len(list) |-> <<list[i]>>]

\* the start of both programs but for the states they are asked for
InitData(rows, tabblocks, dirs, codes) ==
    /\ bdc_df \in SeqsUpTo(rows, MaxRows)
    /\ tabblock_df \in tabblocks
    /\ merged_data = <<>>
    /\ pc = "args"
    /\ output_data = <<>>
    /\ agg_pc = "start"
    /\ states_to_process = <<>>
    /\ state_dirs \in dirs
    /\ state_i = 0
    /\ runs = <<>>
    /\ agg_i = 0
    /\ agg_runs = <<>>
    /\ lookup_code \in codes
    /\ lookup_result = Pending

\* both programs are asked for the states of one of the lists
InitRun(rows, tabblocks, lists, dirs, codes) ==
    /\ InitData(rows, tabblocks, dirs, codes)
    /\ selected_states \in lists
    /\ args_state = TokensOf(selected_states)

\* a run for one state whose files are readable
InitOver(rows, tabblocks) ==
    InitRun(rows, tabblocks, {<<"AL">>}, {AllOk}, {PyInt(10)})

\* both blocks, known and unknown technology codes, malformed speeds
Init ==
    InitOver(RowSet(Blocks, {10, 60, 999}, {1}, {1}, {1, 2}, {100, NaN}, {5}, {0}, {"R"}),
             TabblocksWith(0..MaxHousing, {MaxHousing}))

\* the tier boundaries and the three customer classes
InitTier ==
    InitOver(RowSet({1}, {10, 60}, {1}, {1}, {1, 2}, {24, 25, 99, 100}, {5}, {0},
                    {"R", "X", "B"}),
             TabblocksWith({0}, {0}))

\* the housing reconciliation
InitRecon ==
    InitOver(RowSet({1}, {10, 60}, {1}, {1}, {1, 2}, {10, 50, 100}, {5}, {0}, {"R", "B"}),
             TabblocksWith({0, 1, MaxHousing, 10}, {MaxHousing}))

\* one location reported with several customer-class codes
InitClass ==
    InitOver(RowSet({1}, {10, 50}, {1}, {1}, {1, 2}, {10, 100}, {5}, {0}, {"R", "X", "B"}),
             TabblocksWith({0}, {0}))

\* one or two locations with records that differ in technology, class and tier
InitOrder ==
    InitOver(RowSet({1}, {10, 60}, {1}, {1}, {1, 2}, {24, 100}, {5}, {0}, {"R", "B"}),
             TabblocksWith({0}, {0}))

\* providers and holding companies
InitAgg ==
    InitOver(RowSet({1}, {10, 60}, {1, 2, 3}, {1, 2}, {1, 2}, {10}, {5}, {0, 1}, {"R"}),
             TabblocksWith({0}, {0}))

\* a provider id that is missing from the provider list (4)
InitProv ==
    InitOver(RowSet({1}, {10, 50}, {1, 4}, {1}, {1, 2}, {10, 100}, {5}, {0}, {"R"}),
             TabblocksWith({0}, {0}))

\* the lists of requested states; a state may be asked for twice
StateLists == UNION {[1..k -> States] : k \in 0..MaxStates}

\* runs over several states in every condition of their files
InitStates ==
    InitRun(RowSet({1}, {10, 999}, {1}, {1}, {1}, {100}, {5}, {0}, {"R"}),
            TabblocksWith({1}, {0}), StateLists,
            {d @@ OtherOk : d \in [States -> DirConditions]}, {PyInt(10)})

\* the values get_tech_abbr is called with: codes as ints, as their string
\* forms, as floats, and values int() rejects
TechCodeValues ==
    {PyInt(10), PyInt(50), PyInt(0), PyInt(999), PyInt(11),
     PyStr(<<"1", "0">>), PyStr(<<"5", "0">>), PyStr(<<"0">>),
     PyStr(<<"9", "9", "9">>), PyStr(<<"3", "0", "0">>), PyStr(<<" ", "1", "0">>),
     PyStr(<<"-", "1">>), PyStr(<<"1", "0", ".", "0">>), PyStr(<<"a">>), PyStr(<<>>),
     PyFloat(10), PyNaN, PyNone}

\* the technology lookup on every form of a code
InitLookup ==
    InitRun(RowSet({1}, {10}, {1}, {1}, {1, 2}, {100}, {5}, {0}, {"R"}),
            TabblocksWith({0}, {0}), {<<"AL">>}, {AllOk}, TechCodeValues)

\* --state tokens: abbreviations of the table and one that is not in it,
\* ranges in and against table order, ranges with an unknown or empty
\* endpoint, and 'AL..AK..AZ'
Tokens ==
    {<<"AL">>, <<"AZ">>, <<"ZZ">>,
     <<"AL", "AZ">>, <<"AK", "AK">>, <<"AZ", "AL">>,
     <<"AL", "ZZ">>, <<"ZZ", "AL">>, <<"AK", "">>,
     <<"AL", "AK", "AZ">>}

\* main called with any list of tokens, the files of every state readable
InitExpand ==
    /\ InitData(RowSet({1}, {10}, {1}, {1}, {1}, {100}, {5}, {0}, {"R"}),
                TabblocksWith({1}, {0}), {AllOk}, {PyInt(10)})
    /\ args_state \in SeqsUpTo(Tokens, MaxStates)
    /\ selected_states = <<"AL">>

(***************************************************************************)
(* Actions                                                                 *)
(***************************************************************************)
\* main.py lines 67-73: states_to_process = expand_state_ranges(args.state);
\* on ValueError main logs the error and returns
ExpandStateRanges ==
    /\ pc = "args"
    /\ LET expanded == expand_state_ranges(args_state)
       IN IF expanded.raised = "no"
          THEN pc' = "start" /\ states_to_process' = expanded.value
          ELSE pc' = "returned" /\ UNCHANGED states_to_process
    /\ UNCHANGED <<bdc_df, tabblock_df, merged_data, output_data, agg_pc, state_dirs,
                   state_i, runs, agg_i, agg_runs, lookup_code, lookup_result,
                   args_state, selected_states>>

\* the state of the current iteration of main's loop
CurrentState == states_to_process[state_i]

\* main.py lines 83-95: the loop takes the next state, prepare_data and
\* read_data look for its files (FileNotFoundError: the state is skipped),
\* a file that cannot be read raises (except Exception: logged), otherwise
\* merged_data = merge_data(tabblock_data, bdc_file_paths, holder_mapping)
MergeData ==
    /\ pc \in {"start", "written", "failed", "skipped"}
    /\ state_i < Len(states_to_process)
    /\ LET state == states_to_process[state_i + 1]
           dir == state_dirs[state]
       IN CASE dir = "missing" ->
                 /\ pc' = "skipped"
                 /\ runs' = Append(runs, [state |-> state, outcome |-> "skipped",
                                          features |-> <<>>])
                 /\ UNCHANGED merged_data
            [] dir = "corrupt" ->
                 /\ pc' = "failed"
                 /\ runs' = Append(runs, [state |-> state, outcome |-> "failed",
                                          features |-> <<>>])
                 /\ UNCHANGED merged_data
            [] OTHER ->
                 /\ pc' = "merged"
                 /\ merged_data' = merge_data(tabblock_df, bdc_df, holder_mapping)
                 /\ UNCHANGED runs
    /\ state_i' = state_i + 1
    /\ UNCHANGED <<bdc_df, tabblock_df, output_data, agg_pc, states_to_process,
                   state_dirs, agg_i, agg_runs, lookup_code, lookup_result,
                   args_state, selected_states>>

\* main.py line 108: the assembly loop of write_geojson_and_convert_to_gpkg.
\* An exception leaves the loop, is caught by main (lines 113-115) and
\* nothing is written for the state; otherwise the features are written.
WriteGeojson ==
    /\ pc = "merged"
    /\ merged_data' = AssembleAll(merged_data)
    /\ pc' = IF FirstRaising(merged_data) = 0 THEN "written" ELSE "failed"
    /\ runs' = Append(runs, [state |-> CurrentState, outcome |-> pc',
                             features |-> IF FirstRaising(merged_data) = 0
                                          THEN AssembleAll(merged_data) ELSE <<>>])
    /\ UNCHANGED <<bdc_df, tabblock_df, output_data, agg_pc, states_to_process,
                   state_dirs, state_i, agg_i, agg_runs, lookup_code, lookup_result,
                   args_state, selected_states>>

\* main has returned on the ValueError of the expansion, or its loop has
\* run to its end
MainEnded ==
    \/ pc = "returned"
    \/ pc \notin {"args", "merged"} /\ state_i = Len(states_to_process)

\* aggstatedata.py lines 25-219: one iteration of the CSV program's loop.
\* The two programs share no data but the files they read; the CSV program
\* is run once main has ended.
\* A missing bdc directory is skipped (lines 29-31); unreadable files leave
\* nothing to aggregate (lines 77-83, 140); the date of a file name is parsed
\* outside any try (line 93), so its ValueError leaves the function.
AggregateStateData ==
    /\ MainEnded
    /\ agg_pc \in {"start", "aggregated", "skipped"}
    /\ agg_i < Len(selected_states)
    /\ LET state == selected_states[agg_i + 1]
           dir == state_dirs[state]
           outcome == CASE dir = "ok" -> "aggregated"
                        [] dir = "baddate" -> "aborted"
                        [] OTHER -> "skipped"
       IN /\ agg_pc' = outcome
          /\ output_data' = IF dir = "ok" THEN aggregate_rows(bdc_df) ELSE output_data
          /\ agg_runs' = Append(agg_runs, [state |-> state, outcome |-> outcome])
    /\ agg_i' = agg_i + 1
    /\ UNCHANGED <<bdc_df, tabblock_df, merged_data, pc, states_to_process,
                   state_dirs, state_i, runs, lookup_code, lookup_result,
                   args_state, selected_states>>

\* the CSV program has returned or was left by an exception
AggEnded == agg_pc = "aborted" \/ agg_i = Len(selected_states)

\* a call of get_tech_abbr on the value lookup_code.  The function is pure;
\* the call is placed after the two programs.
GetTechAbbr ==
    /\ MainEnded /\ AggEnded
    /\ lookup_result = Pending
    /\ lookup_result' = get_tech_abbr(lookup_code)
    /\ UNCHANGED <<bdc_df, tabblock_df, merged_data, pc, output_data, agg_pc,
                   states_to_process, state_dirs, state_i, runs, agg_i, agg_runs,
                   lookup_code, args_state, selected_states>>

Next ==
    ExpandStateRanges \/ MergeData \/ WriteGeojson \/ AggregateStateData \/ GetTechAbbr

Spec == Init /\ [][Next]_vars

SpecTier == InitTier /\ [][Next]_vars

SpecRecon == InitRecon /\ [][Next]_vars

SpecAgg == InitAgg /\ [][Next]_vars

SpecClass == InitClass /\ [][Next]_vars

SpecLookup == InitLookup /\ [][Next]_vars

SpecProv == InitProv /\ [][Next]_vars

SpecStates == InitStates /\ [][Next]_vars

SpecExpand == InitExpand /\ [][Next]_vars

SpecOrder == InitOrder /\ [][Next]_vars

(***************************************************************************)
(* Properties                                                              *)
(***************************************************************************)
Classes == {"R", "X", "B"}

\* the three serving counts of a customer class in a block's attributes
OutCounts(properties, code) ==
    CASE code = "R" -> [unserved |-> properties.Residential_Unserved,
                        underserved |-> properties.Residential_Underserved,
                        served |-> properties.Residential_Served]
      [] code = "X" -> [unserved |-> properties.Residential_and_Business_Unserved,
                        underserved |-> properties.Residential_and_Business_Underserved,
                        served |-> properties.Residential_and_Business_Served]
      [] code = "B" -> [unserved |-> properties.Business_Unserved,
                        underserved |-> properties.Business_Underserved,
                        served |-> properties.Business_Served]

Total(t) == t.unserved + t.underserved + t.served

\* the tier of a speed, by the integer ranges 0..24, 25..99, 100..
TierOfSpeed(s) ==
    IF s <= 24 THEN "unserved" ELSE IF s <= 99 THEN "underserved" ELSE "served"

\* the locations of a class that pass the counting-technology filter
ClassLocations(lms, code) ==
    {k \in DOMAIN lms : TECH_ABBR_MAPPING[lms[k][3]][2] /\ lms[k][2] = code}

\* the tier counts the thresholds give for a class
ExpectedCounts(lms, code) ==
    [unserved |-> Cardinality({k \in ClassLocations(lms, code) :
                                  TierOfSpeed(lms[k][1]) = "unserved"}),
     underserved |-> Cardinality({k \in ClassLocations(lms, code) :
                                  TierOfSpeed(lms[k][1]) = "underserved"}),
     served |-> Cardinality({k \in ClassLocations(lms, code) :
                                  TierOfSpeed(lms[k][1]) = "served"})]

\* the step of the assembly loop that completes
Assembled == pc = "merged" /\ pc' = "written"

\* the feature of block b in merged_data
FeatureOf(b) ==
    merged_data[CHOOSE n \in 1..Len(merged_data) : merged_data[n].properties.GEOID20 = b]

C1_Block(recs, housing20, properties) ==
    LET lms == Aggregate(recs).location_max_speeds
    IN \A code \in Classes :
          LET pre == TierCounts(lms, code)
              out == OutCounts(properties, code)
          IN /\ pre = ExpectedCounts(lms, code)
             /\ Total(pre) = Cardinality(ClassLocations(lms, code))
             /\ out.underserved = pre.underserved
             /\ out.served = pre.served
             /\ (code # "R" \/ Total(pre) >= housing20) => out.unserved = pre.unserved

\* C1: every location of a class that passes the counting-technology filter
\* is counted in exactly one tier of its class, unserved below 25, underserved
\* from 25 to 99, served from 100; before reconciliation the three counts of
\* a class add up to the number of such locations.
C1_TierPartition ==
    [][Assembled =>
         \A n \in 1..Len(merged_data) :
            C1_Block(merged_data[n].properties.bdc_locations,
                     merged_data[n].properties.HOUSING20,
                     merged_data'[n].properties)]_vars

\* residential locations at 24 and 25 Mbps fall on the two sides of the boundary
C1_Witness ==
    /\ pc = "written"
    /\ Len(bdc_df) = 2
    /\ \A i \in 1..2 : bdc_df[i].technology = 10 /\ bdc_df[i].business_residential_code = "R"
    /\ bdc_df[1].location_id # bdc_df[2].location_id
    /\ bdc_df[1].max_advertised_download_speed = 24
    /\ bdc_df[2].max_advertised_download_speed = 25
    /\ FeatureOf(1).properties.Residential_Unserved = 1
    /\ FeatureOf(1).properties.Residential_Underserved = 1
    /\ FeatureOf(1).properties.Residential_Served = 0

\* the scenario of the specification: two residential locations at 50 and 10
IsScenario(recs) ==
    /\ Len(recs) = 2
    /\ recs[1].location_id # recs[2].location_id
    /\ \A i \in 1..2 : /\ recs[i].business_residential_code = "R"
                         /\ TECH_ABBR_MAPPING[recs[i].technology][2]
    /\ {recs[1].max_advertised_download_speed,
         recs[2].max_advertised_download_speed} = {10, 50}

C2_Block(recs, housing20, properties) ==
    LET pre == ExpectedCounts(Aggregate(recs).location_max_speeds, "R")
    IN /\ properties.Residential_Unserved =
             IF Total(pre) < housing20
             THEN housing20 - pre.underserved - pre.served
             ELSE pre.unserved
       /\ (housing20 = 10 /\ IsScenario(recs)) =>
             /\ properties.Residential_Unserved = 9
             /\ properties.Residential_Underserved = 1
             /\ properties.Residential_Served = 0

\* C2: when the residential counts before reconciliation add up to less than
\* housing20 the returned residential_unserved is housing20 - underserved -
\* served, otherwise it is the count before reconciliation; housing20 = 10
\* with locations at 50 and 10 Mbps gives 9, 1, 0.
C2_Reconciliation ==
    [][Assembled =>
         \A n \in 1..Len(merged_data) :
            C2_Block(merged_data[n].properties.bdc_locations,
                     merged_data[n].properties.HOUSING20,
                     merged_data'[n].properties)]_vars

C2_Witness ==
    /\ pc = "written"
    /\ IsScenario(bdc_df)
    /\ FeatureOf(1).properties.HOUSING20 = 10
    /\ FeatureOf(1).properties.Residential_Unserved = 9
    /\ FeatureOf(1).properties.Residential_Underserved = 1
    /\ FeatureOf(1).properties.Residential_Served = 0

\* C3: after assembly the residential counts of every block add up to at
\* least the block's housing20.
C3_CountConsistency ==
    pc = "written" =>
        \A n \in 1..Len(merged_data) :
            Total(OutCounts(merged_data[n].properties, "R"))
                >= merged_data[n].properties.HOUSING20

\* a block whose counted residential locations are fewer than its housing units
C3_Witness ==
    /\ pc = "written"
    /\ FeatureOf(1).properties.HOUSING20 = MaxHousing
    /\ FeatureOf(1).properties.Residential_Served = 1
    /\ FeatureOf(1).properties.Residential_Unserved = MaxHousing - 1


\* the records on technologies that count toward classification
CountingRecords(recs) ==
    SelectSeq(recs, LAMBDA r : /\ r.technology \in DOMAIN TECH_ABBR_MAPPING
                               /\ TECH_ABBR_MAPPING[r.technology][2])

LocationsOf(recs) == {recs[i].location_id : i \in 1..Len(recs)}

\* the maximum download speed over the records of location l
BestSpeed(recs, l) ==
    LET speeds == {recs[i].max_advertised_download_speed :
                      i \in {j \in 1..Len(recs) : recs[j].location_id = l}}
    IN CHOOSE s \in speeds : \A t \in speeds : s >= t

\* the class code of the last record of location l
LastCode(recs, l) ==
    LET idx == {j \in 1..Len(recs) : recs[j].location_id = l}
    IN recs[CHOOSE i \in idx : \A j \in idx : i >= j].business_residential_code

\* the tier counts of a class when only the counting records are looked at
CountingOnlyCounts(recs, code) ==
    LET cr == CountingRecords(recs)
        locs == {l \in LocationsOf(cr) : LastCode(cr, l) = code}
    IN [unserved |-> Cardinality({l \in locs : TierOfSpeed(BestSpeed(cr, l)) = "unserved"}),
        underserved |->
            Cardinality({l \in locs : TierOfSpeed(BestSpeed(cr, l)) = "underserved"}),
        served |-> Cardinality({l \in locs : TierOfSpeed(BestSpeed(cr, l)) = "served"})]

C4_Block(recs, housing20, properties) ==
    \A code \in Classes :
        LET want == CountingOnlyCounts(recs, code)
            out == OutCounts(properties, code)
        IN /\ out.underserved = want.underserved
           /\ out.served = want.served
           /\ (code # "R" \/ Total(want) >= housing20) => out.unserved = want.unserved

\* C4: the speed that tiers a location is the maximum over its records on
\* counting technologies only; records on other technologies change none of
\* the nine counts, and a location with a counting record is always tiered.
C4_CountingOnly ==
    [][Assembled =>
         \A n \in 1..Len(merged_data) :
            C4_Block(merged_data[n].properties.bdc_locations,
                     merged_data[n].properties.HOUSING20,
                     merged_data'[n].properties)]_vars

\* the rows of block b in the input frame
InputRows(b) == SelectSeq(bdc_df, LAMBDA r : r.block_geoid = b)

\* C5: total_locations of a block is the number of distinct location_id
\* values over all of the block's records.
C5_TotalLocations ==
    pc = "written" =>
        \A n \in 1..Len(merged_data) :
            merged_data[n].properties.Total_Locations =
                Cardinality(LocationsOf(InputRows(merged_data[n].properties.GEOID20)))

NoDuplicates(list) ==
    \A i, j \in 1..Len(list) : list[i] = list[j] => i = j

\* C6: no holding company appears twice in the holding_company list of a
\* technology entry, and the CSV aggregator lists a provider name at most
\* once per block and technology.
C6_HolderUniqueness ==
    /\ pc = "written" =>
          \A n \in 1..Len(merged_data) : \A a \in TechAbbrs :
              merged_data[n].properties[a] # None =>
                  NoDuplicates(merged_data[n].properties[a].holding_company)
    /\ agg_pc = "aggregated" =>
          \A n \in 1..Len(output_data) : \A a \in TechAbbrs :
              NoDuplicates(output_data[n].provider_name[a])

\* two providers of one holding company on the same block and technology
C6_Witness ==
    /\ pc = "written"
    /\ agg_pc = "aggregated"
    /\ Len(bdc_df) = 2
    /\ bdc_df[1].provider_id = 1 /\ bdc_df[2].provider_id = 2
    /\ bdc_df[1].technology = 10 /\ bdc_df[2].technology = 10
    /\ bdc_df[1].location_id # bdc_df[2].location_id
    /\ FeatureOf(1).properties.Copper.holding_company = <<"H1">>
    /\ output_data[1].provider_name.Copper = <<"H1">>

C7_Block(recs, properties) ==
    \A a \in TechAbbrs :
        properties[a] # None =>
            \A i \in 1..Len(properties[a].holding_company) :
                properties[a].locations[i] =
                    Cardinality({recs[j].location_id :
                        j \in {k \in 1..Len(recs) :
                                 /\ recs[k].tech_abbr = a
                                 /\ recs[k].holding_company =
                                        properties[a].holding_company[i]}})

\* C7: for the records left by the dedup step, locations[i] of a technology
\* entry is the number of distinct location_ids among the block's records of
\* that technology and of the holder at index i.
C7_LocationCount ==
    [][Assembled =>
         \A n \in 1..Len(merged_data) :
            C7_Block(merged_data[n].properties.bdc_locations,
                     merged_data'[n].properties)]_vars

\* the GEOID20 values of the input geometry set
InputBlocks == {tabblock_df[i].properties.GEOID20 : i \in 1..Len(tabblock_df)}

C9_Block(properties) ==
    /\ \A a \in TechAbbrs : a \in DOMAIN properties /\ properties[a] = None
    /\ properties.Total_Locations = 0
    /\ OutCounts(properties, "B") = ZeroTier
    /\ OutCounts(properties, "X") = ZeroTier
    /\ properties.Residential_Underserved = 0
    /\ properties.Residential_Served = 0
    /\ properties.Residential_Unserved = properties.HOUSING20

\* C9: a block without availability records gets null technology entries,
\* zero counts, and Residential_Unserved equal to its HOUSING20.
C9_EmptyBlock ==
    pc = "written" =>
        \A n \in 1..Len(merged_data) :
            InputRows(merged_data[n].properties.GEOID20) = <<>> =>
                C9_Block(merged_data[n].properties)

\* block 2 has housing units and no records while block 1 has records
C9_Witness ==
    /\ pc = "written"
    /\ InputRows(2) = <<>>
    /\ InputRows(1) # <<>>
    /\ FeatureOf(2).properties.HOUSING20 > 0
    /\ FeatureOf(2).properties.Residential_Unserved = FeatureOf(2).properties.HOUSING20
    /\ FeatureOf(2).properties.Total_Locations = 0

\* the records of a block without those of location l
WithoutLocation(recs, l) == SelectSeq(recs, LAMBDA r : r.location_id # l)

\* the number of locations counted for a class, over its three tiers
ClassTotal(recs, code) ==
    Total(TierCounts(Aggregate(recs).location_max_speeds, code))

\* what location l adds to the tier counts of a class
Contribution(recs, l, code) ==
    ClassTotal(recs, code) - ClassTotal(WithoutLocation(recs, l), code)

\* C10: every location_id of a block contributes to the tier counts of at
\* most one of the three customer classes.
C10_PartitionDisjoint ==
    pc = "merged" =>
        \A n \in 1..Len(merged_data) :
            LET recs == merged_data[n].properties.bdc_locations
            IN \A l \in LocationsOf(recs) :
                  /\ \A code \in Classes : Contribution(recs, l, code) \in {0, 1}
                  /\ Cardinality({code \in Classes : Contribution(recs, l, code) # 0}) <= 1

\* one location with records of two classes on counting technologies
C10_Witness ==
    /\ pc = "merged"
    /\ LET recs == FeatureOf(1).properties.bdc_locations
       IN /\ Len(recs) = 2
          /\ recs[1].location_id = recs[2].location_id
          /\ recs[1].business_residential_code = "R"
          /\ recs[2].business_residential_code = "X"
          /\ Contribution(recs, recs[1].location_id, "X") = 1
          /\ Contribution(recs, recs[1].location_id, "R") = 0

\* the records of block b left by the dedup step of merge_data
DedupRecords(b) == bdc_locations_of(bdc_df, holder_mapping, b)

\* the assembly loop was run on the files of the current state
Processed ==
    /\ pc \in {"written", "failed"}
    /\ state_dirs[CurrentState] \in {"ok", "baddate"}

KnownTech(r) == r.technology \in DOMAIN TECH_ABBR_MAPPING

ValidSpeed(r) == r.max_advertised_download_speed # NaN

\* the nine serving counts of a block's attributes
NineCounts(properties) == [code \in Classes |-> OutCounts(properties, code)]

\* the nine serving counts transform_bdc_locations returns for recs
NineCountsOf(recs, housing20) ==
    LET t == transform_bdc_locations(recs, housing20)
    IN [code \in Classes |->
          CASE code = "R" -> t.residential
            [] code = "X" -> t.residential_and_business
            [] code = "B" -> t.business]

C11_Block(recs, properties) ==
    (\E i \in 1..Len(recs) : ~KnownTech(recs[i]) /\ ValidSpeed(recs[i])) =>
        /\ pc = "written"
        /\ \A i \in 1..Len(recs) : ~KnownTech(recs[i]) => recs[i].tech_abbr = "Unknown"
        /\ NineCounts(properties) =
              NineCountsOf(SelectSeq(recs, KnownTech), properties.HOUSING20)
        /\ properties.Total_Locations =
              Cardinality(LocationsOf(SelectSeq(recs, ValidSpeed)))

\* C11: a block with a record whose technology code is not in the table is
\* assembled without an exception: the record carries the abbreviation
\* "Unknown", the nine counts are those of the block's other records, and
\* the record's location is counted in Total_Locations.
C11_UnknownTechnology ==
    Processed =>
        \A n \in 1..Len(merged_data) :
            C11_Block(DedupRecords(merged_data[n].properties.GEOID20),
                      merged_data[n].properties)

RECURSIVE Decimal(_)
\* the string form of a code: its decimal digits
Decimal(n) ==
    IF n < 10 THEN <<Digits[n + 1]>>
    ELSE Append(Decimal(n \div 10), Digits[(n % 10) + 1])

\* values no integer can be read from: None, nan, and strings with a
\* character that is no digit, blank or sign, or without any digit
Unconvertible(x) ==
    \/ x.type = "NoneType"
    \/ x = PyNaN
    \/ /\ x.type = "str"
       /\ \/ \E i \in 1..Len(x.chars) : ~IsDigit(x.chars[i]) /\ x.chars[i] \notin {" ", "+", "-"}
          \/ \A i \in 1..Len(x.chars) : ~IsDigit(x.chars[i])

HolderOf(id) ==
    IF id \in DOMAIN provider_id_to_name THEN provider_id_to_name[id] ELSE "Unknown"

\* C13: get_holder_name and the provider_name mapping of the CSV aggregator
\* both give the holding company of a listed provider id and "Unknown" for
\* an id that is not listed.
C13_ProviderLookup ==
    /\ pc = "merged" =>
          \A n \in 1..Len(merged_data) :
              LET recs == merged_data[n].properties.bdc_locations
              IN \A i \in 1..Len(recs) :
                    recs[i].holding_company = HolderOf(recs[i].provider_id)
    /\ agg_pc = "aggregated" =>
          \A i \in 1..Len(bdc_df) :
              KnownTech(bdc_df[i]) =>
                  \E n \in 1..Len(output_data) :
                      /\ output_data[n].block_geoid = bdc_df[i].block_geoid
                      /\ InList(output_data[n].provider_name[
                                    TECH_ABBR_MAPPING[bdc_df[i].technology][1]],
                                HolderOf(bdc_df[i].provider_id))

Unresolved(r) == r.provider_id \notin DOMAIN provider_id_to_name

\* the tier counts of rows of one class on counting technologies: every
\* location is counted once, at its best speed
BestSpeedCounts(rows) ==
    [t \in {"unserved", "underserved", "served"} |->
        Cardinality({l \in LocationsOf(rows) : TierOfSpeed(BestSpeed(rows, l)) = t})]

C14_Block(rows, recs, properties) ==
    /\ \A i \in 1..Len(rows) :
          Unresolved(rows[i]) =>
              /\ \E j \in 1..Len(recs) :
                    /\ recs[j].provider_id = rows[i].provider_id
                    /\ recs[j].location_id = rows[i].location_id
                    /\ recs[j].technology = rows[i].technology
                    /\ recs[j].holding_company = "Unknown"
              /\ properties[TECH_ABBR_MAPPING[rows[i].technology][1]] # None
              /\ InList(properties[TECH_ABBR_MAPPING[rows[i].technology][1]].holding_company,
                        "Unknown")
    /\ properties.Total_Locations = Cardinality(LocationsOf(rows))
    /\ properties.Residential_Unserved = BestSpeedCounts(rows).unserved
    /\ properties.Residential_Underserved = BestSpeedCounts(rows).underserved
    /\ properties.Residential_Served = BestSpeedCounts(rows).served

\* C14: a record whose provider id is not listed is kept with the holding
\* company "Unknown": "Unknown" is a holder of the entry of the record's
\* technology, the record's location is counted in Total_Locations, and the
\* location is tiered at its best speed over all records, those of unlisted
\* providers included (residential records on counting technologies,
\* HOUSING20 = 0).
C14_UnresolvedRetained ==
    [][Assembled =>
         \A n \in 1..Len(merged_data) :
            C14_Block(InputRows(merged_data[n].properties.GEOID20),
                      merged_data[n].properties.bdc_locations,
                      merged_data'[n].properties)]_vars

\* a location served at 100 Mbps by an unlisted provider only
C14_Witness ==
    /\ pc = "written"
    /\ Len(bdc_df) = 2
    /\ bdc_df[1].provider_id = 1 /\ bdc_df[2].provider_id = 4
    /\ bdc_df[1].location_id = 1 /\ bdc_df[2].location_id = 2
    /\ bdc_df[1].max_advertised_download_speed = 10
    /\ bdc_df[2].max_advertised_download_speed = 100
    /\ bdc_df[1].technology = 10 /\ bdc_df[2].technology = 10
    /\ FeatureOf(1).properties.Copper.holding_company = <<"H1", "Unknown">>
    /\ FeatureOf(1).properties.Total_Locations = 2
    /\ FeatureOf(1).properties.Residential_Served = 1

\* the states a log of iterations names, in order
StatesOf(log) == [i \in 1..Len(log) |-> log[i].state]

IsPrefix(p, q) == Len(p) <= Len(q) /\ \A i \in 1..Len(p) : p[i] = q[i]

\* C15: in both programs the states are attempted in the order of the list,
\* each once; no exception leaves the per-state loop, and when a program has
\* ended every state of the list has been attempted, whatever happened to
\* the states before it.
C15_StateIsolation ==
    /\ IsPrefix(StatesOf(runs), states_to_process)
    /\ IsPrefix(StatesOf(agg_runs), selected_states)
    /\ pc # "aborted"
    /\ agg_pc # "aborted"
    /\ MainEnded => StatesOf(runs) = states_to_process
    /\ AggEnded => StatesOf(agg_runs) = selected_states

\* transform_bdc_locations raises nothing on the records of block b
BlockProcessable(b, housing20) ==
    transform_bdc_locations(DedupRecords(b), housing20).raised = "no"

\* the attributes the assembly adds to a block
AddedKeys ==
    TechAbbrs \cup DOMAIN CountAttrs(0, ZeroTier, ZeroTier, ZeroTier)

\* C16: once the assembly loop of a state has run, every block whose own
\* records can be processed has received its attributes and the state's
\* features have been written, whatever the records of the other blocks.
C16_BlockIsolation ==
    Processed =>
        \A n \in 1..Len(merged_data) :
            BlockProcessable(merged_data[n].properties.GEOID20,
                             merged_data[n].properties.HOUSING20) =>
                /\ AddedKeys \subseteq DOMAIN merged_data[n].properties
                /\ pc = "written"

\* the locations of the records of recs with the given technology and holder
HolderLocations(recs, abbr, holder) ==
    {recs[j].location_id :
        j \in {k \in 1..Len(recs) : recs[k].tech_abbr = abbr /\ recs[k].holding_company = holder}}

C17_Block(recs, properties) ==
    /\ NineCounts(properties) = NineCountsOf(SelectSeq(recs, ValidSpeed), properties.HOUSING20)
    /\ properties.Total_Locations = Cardinality(LocationsOf(recs))
    /\ \A i \in 1..Len(recs) :
          ~ValidSpeed(recs[i]) =>
              LET entry == properties[recs[i].tech_abbr]
                  holder == recs[i].holding_company
              IN /\ entry # None
                 /\ InList(entry.holding_company, holder)
                 /\ entry.locations[IndexOf(entry.holding_company, holder)] >=
                       Cardinality(HolderLocations(recs, recs[i].tech_abbr, holder))

\* C17: when every technology code of a state is in the table the assembly
\* completes, also with records whose download speed is no integer; such a
\* record adds nothing to the nine tier counts, but its location is counted
\* in Total_Locations and in the location count of its holder in the entry
\* of its technology.
C17_MalformedSpeed ==
    (Processed /\ \A i \in 1..Len(bdc_df) : KnownTech(bdc_df[i])) =>
        /\ pc = "written"
        /\ \A n \in 1..Len(merged_data) :
              C17_Block(DedupRecords(merged_data[n].properties.GEOID20),
                        merged_data[n].properties)

AssemblyStep == pc = "merged" /\ pc' \in {"written", "failed"}

\* the attributes of a block before the assembly, bdc_locations apart
KeptKeys(properties) == DOMAIN properties \ {"bdc_locations"}

\* C19: the assembly keeps the features in place and changes neither the
\* geometry nor an attribute the block had before (GEOID20, HOUSING20);
\* when it completes, every feature has its id set to GEOID20 and has for
\* attributes exactly those it had, without bdc_locations, plus the
\* technology keys, Total_Locations and the nine serving counts.
C19_AssemblyFrame ==
    [][AssemblyStep =>
         /\ Len(merged_data') = Len(merged_data)
         /\ \A n \in 1..Len(merged_data) :
               /\ merged_data'[n].geometry = merged_data[n].geometry
               /\ \A k \in KeptKeys(merged_data[n].properties) :
                     /\ k \in DOMAIN merged_data'[n].properties
                     /\ merged_data'[n].properties[k] = merged_data[n].properties[k]
               /\ pc' = "written" =>
                     /\ DOMAIN merged_data'[n] = {"geometry", "properties", "id"}
                     /\ merged_data'[n].id = merged_data[n].properties.GEOID20
                     /\ DOMAIN merged_data'[n].properties =
                           KeptKeys(merged_data[n].properties) \cup AddedKeys]_vars

\* block 1 with a record and housing units, after the assembly
C19_Witness ==
    /\ pc = "written"
    /\ Len(InputRows(1)) = 1
    /\ FeatureOf(1).geometry = <<"geom", 1>>
    /\ FeatureOf(1).id = 1
    /\ FeatureOf(1).properties.HOUSING20 = MaxHousing
    /\ FeatureOf(1).properties.Total_Locations = 1
    /\ "bdc_locations" \notin DOMAIN FeatureOf(1).properties

\* the geometry set reduced to block b
OnlyBlock(b) == SelectSeq(tabblock_df, LAMBDA f : f.properties.GEOID20 = b)

\* the attributes block b gets when the state holds nothing but the block
\* and its own records
AloneProperties(b) ==
    AssembleFeature(merge_data(OnlyBlock(b), InputRows(b), holder_mapping)[1]).properties

HolderLists ==
    {"holding_company", "locations", "provider_id", "brand_name",
     "max_advertised_download_speed", "max_advertised_upload_speed",
     "low_latency", "business_residential_code"}

\* position i of the lists of entry is taken from record r of technology a
DescribedBy(entry, i, r, a) ==
    /\ r.tech_abbr = a
    /\ r.holding_company = entry.holding_company[i]
    /\ r.provider_id = entry.provider_id[i]
    /\ r.brand_name = entry.brand_name[i]
    /\ r.max_advertised_download_speed = entry.max_advertised_download_speed[i]
    /\ r.max_advertised_upload_speed = entry.max_advertised_upload_speed[i]
    /\ r.low_latency = entry.low_latency[i]
    /\ r.business_residential_code = entry.business_residential_code[i]

C21_Block(recs, properties) ==
    \A a \in TechAbbrs :
        properties[a] # None =>
            /\ \A f \in HolderLists :
                  Len(properties[a][f]) = Len(properties[a].holding_company)
            /\ \A i \in 1..Len(properties[a].holding_company) :
                  /\ properties[a].locations[i] >= 1
                  /\ \E j \in 1..Len(recs) : DescribedBy(properties[a], i, recs[j], a)

\* C21: in every non-null technology entry the eight per-holder lists have
\* the same length, and the values at position i of the lists are those of
\* one record of the block whose technology is the entry's and whose holder
\* is holding_company[i]; that holder has at least one location.
C21_IndexAlignment ==
    [][Assembled =>
         \A n \in 1..Len(merged_data) :
            C21_Block(merged_data[n].properties.bdc_locations,
                      merged_data'[n].properties)]_vars

\* two holders on one technology, a second provider of the first holder
C21_Witness ==
    /\ pc = "written"
    /\ Len(bdc_df) = 2
    /\ bdc_df[1].provider_id = 3 /\ bdc_df[2].provider_id = 2
    /\ bdc_df[1].technology = 10 /\ bdc_df[2].technology = 10
    /\ bdc_df[1].brand_name = 1 /\ bdc_df[2].brand_name = 2
    /\ FeatureOf(1).properties.Copper.holding_company = <<"H1", "H2">>
    /\ FeatureOf(1).properties.Copper.provider_id = <<2, 3>>
    /\ FeatureOf(1).properties.Copper.brand_name = <<2, 1>>
    /\ FeatureOf(1).properties.Copper.locations = <<1, 1>>

\* the grain of the dedup step according to the specification
GrainKey(r) == <<r.block_geoid, r.tech_abbr, r.holding_company, r.location_id>>

\* the maximum of column f over the rows sharing the grain key k
GrainMax(rows, k, f) ==
    LET vals == {rows[i][f] : i \in {j \in 1..Len(rows) : GrainKey(rows[j]) = k}}
    IN CHOOSE v \in vals : \A w \in vals : v >= w

C22_Block(rows, recs) ==
    /\ \A i, j \in 1..Len(recs) : GrainKey(recs[i]) = GrainKey(recs[j]) => i = j
    /\ \A i \in 1..Len(recs) :
          /\ recs[i].max_advertised_download_speed =
                GrainMax(rows, GrainKey(recs[i]), "max_advertised_download_speed")
          /\ recs[i].max_advertised_upload_speed =
                GrainMax(rows, GrainKey(recs[i]), "max_advertised_upload_speed")
          /\ recs[i].low_latency = GrainMax(rows, GrainKey(recs[i]), "low_latency")

\* C22: after the dedup step a block holds at most one record per
\* (block_geoid, technology abbreviation, holding_company, location_id), and
\* the record carries the maximum download speed, the maximum upload speed
\* and the OR of low_latency over the input rows sharing that tuple.
C22_DedupGrain ==
    pc = "merged" =>
        \A n \in 1..Len(merged_data) :
            C22_Block(process_bdc_file(bdc_df, holder_mapping),
                      merged_data[n].properties.bdc_locations)

\* the maximum of column f over the records of technology a and of a holder
HolderMax(recs, a, holder, f) ==
    LET vals == {recs[j][f] :
                    j \in {k \in 1..Len(recs) :
                             recs[k].tech_abbr = a /\ recs[k].holding_company = holder}}
    IN CHOOSE v \in vals : \A w \in vals : v >= w

C23_Block(recs, properties) ==
    \A a \in TechAbbrs :
        properties[a] # None =>
            \A i \in 1..Len(properties[a].holding_company) :
                /\ properties[a].max_advertised_download_speed[i] =
                      HolderMax(recs, a, properties[a].holding_company[i],
                                "max_advertised_download_speed")
                /\ properties[a].max_advertised_upload_speed[i] =
                      HolderMax(recs, a, properties[a].holding_company[i],
                                "max_advertised_upload_speed")

\* C23: for every holder of a technology entry the download (upload) speed
\* recorded for the holder is the maximum download (upload) speed over the
\* holder's records of that block and technology.
C23_HolderMaxSpeeds ==
    [][Assembled =>
         \A n \in 1..Len(merged_data) :
            C23_Block(merged_data[n].properties.bdc_locations,
                      merged_data'[n].properties)]_vars

\* the tier counts of a class when every location is placed by the class
\* code of its last record and tiered at its best speed
LastCodeCounts(recs, code) ==
    LET locs == {l \in LocationsOf(recs) : LastCode(recs, l) = code}
    IN [unserved |-> Cardinality({l \in locs : TierOfSpeed(BestSpeed(recs, l)) = "unserved"}),
        underserved |->
            Cardinality({l \in locs : TierOfSpeed(BestSpeed(recs, l)) = "underserved"}),
        served |-> Cardinality({l \in locs : TierOfSpeed(BestSpeed(recs, l)) = "served"})]

C24_Block(recs, properties) ==
    /\ \A l \in LocationsOf(recs) :
          /\ Aggregate(recs).location_max_speeds[l][1] = BestSpeed(recs, l)
          /\ Aggregate(recs).location_max_speeds[l][2] = LastCode(recs, l)
    /\ \A code \in Classes : OutCounts(properties, code) = LastCodeCounts(recs, code)

\* C24: a location whose records carry different class codes is placed in
\* the partition of the code of its last record, and tiered there at the
\* maximum download speed over all its records (records on counting
\* technologies, HOUSING20 = 0).
C24_LastClassWins ==
    [][Assembled =>
         \A n \in 1..Len(merged_data) :
            C24_Block(merged_data[n].properties.bdc_locations,
                      merged_data'[n].properties)]_vars

\* location 1: residential at 100 Mbps first, business at 10 Mbps last
C24_Witness ==
    /\ pc = "written"
    /\ Len(bdc_df) = 2
    /\ bdc_df[1].location_id = 1 /\ bdc_df[2].location_id = 1
    /\ bdc_df[1].technology = 10 /\ bdc_df[2].technology = 50
    /\ bdc_df[1].business_residential_code = "R"
    /\ bdc_df[2].business_residential_code = "B"
    /\ bdc_df[1].max_advertised_download_speed = 100
    /\ bdc_df[2].max_advertised_download_speed = 10
    /\ FeatureOf(1).properties.Business_Served = 1
    /\ FeatureOf(1).properties.Business_Unserved = 0
    /\ OutCounts(FeatureOf(1).properties, "R") = ZeroTier

\* block b has no input row whose technology has the abbreviation a
NoRecordOn(b, a) ==
    \A i \in 1..Len(InputRows(b)) : technology_abbr(InputRows(b)[i].technology) # a

\* an entry without holders: empty lists, no location counted
EmptyEntry(entry) ==
    /\ entry # None
    /\ \A f \in HolderLists : entry[f] = <<>>

\* C25 as stated: the key of a technology without records in a block is
\* present in the block's output and its entry has empty lists and zero
\* counts.
C25_EmptyTechEntry ==
    pc = "written" =>
        \A n \in 1..Len(merged_data) : \A a \in TechAbbrs :
            NoRecordOn(merged_data[n].properties.GEOID20, a) =>
                /\ a \in DOMAIN merged_data[n].properties
                /\ EmptyEntry(merged_data[n].properties[a])

\* C25 amended: the key of a technology without records in a block is
\* present in the block's output and its entry is null (None): there are
\* no lists and no counts for that technology.
C25_NullTechEntry ==
    pc = "written" =>
        \A n \in 1..Len(merged_data) : \A a \in TechAbbrs :
            NoRecordOn(merged_data[n].properties.GEOID20, a) =>
                /\ a \in DOMAIN merged_data[n].properties
                /\ merged_data[n].properties[a] = None

\* block 1 has two locations on copper and nothing on the other technologies
C25_Witness ==
    /\ pc = "written"
    /\ Len(InputRows(1)) = 2
    /\ \A i \in 1..2 : InputRows(1)[i].technology = 10
    /\ FeatureOf(1).properties.Total_Locations = 2
    /\ FeatureOf(1).properties.Copper.locations = <<2>>
    /\ FeatureOf(1).properties.GeoSat = None
    /\ FeatureOf(1).properties.Fiber = None

\* the inputs of the reconciliation runs: the rows of one block
ReconRows ==
    SeqsUpTo(RowSet({1}, {10, 60}, {1}, {1}, {1, 2}, {10, 50, 100}, {5}, {0}, {"R", "B"}),
             MaxRows)

\* the residential counts of a block's records before reconciliation
PreResidential(recs) == TierCounts(Aggregate(recs).location_max_speeds, "R")

\* the housing counts tried: those of the bound and those of the state's blocks
ReconHousing ==
    (0..MaxHousing) \cup {tabblock_df[n].properties.HOUSING20 : n \in 1..Len(tabblock_df)}

\* C26 as stated: there are a block's records and a housing20 >= 0, with
\* underserved + served above housing20, for which transform_bdc_locations
\* returns a negative residential_unserved (searched among the rows of the
\* reconciliation runs, those of the state included).
C26_NegativeUnserved ==
    \E rows \in ReconRows \cup {bdc_df} : \E housing20 \in ReconHousing :
        LET recs == bdc_locations_of(rows, holder_mapping, 1)
        IN /\ PreResidential(recs).underserved + PreResidential(recs).served > housing20
           /\ transform_bdc_locations(recs, housing20).residential.unserved < 0

C26_Block(recs, housing20, properties) ==
    /\ properties.Residential_Unserved >= 0
    /\ PreResidential(recs).underserved + PreResidential(recs).served > housing20 =>
          properties.Residential_Unserved = PreResidential(recs).unserved

\* C26 amended: residential_unserved is never negative; when underserved +
\* served exceed housing20 the reconciliation does not apply and the count
\* stays at its value before reconciliation.
C26_NeverNegative ==
    [][Assembled =>
         \A n \in 1..Len(merged_data) :
            C26_Block(merged_data[n].properties.bdc_locations,
                      merged_data[n].properties.HOUSING20,
                      merged_data'[n].properties)]_vars

\* one housing unit, one location underserved and one served
C26_Witness ==
    /\ pc = "written"
    /\ FeatureOf(1).properties.HOUSING20 = 1
    /\ FeatureOf(1).properties.Residential_Underserved = 1
    /\ FeatureOf(1).properties.Residential_Served = 1
    /\ FeatureOf(1).properties.Residential_Unserved = 0

\* the position of an abbreviation in the table, 0 when it is not there
TableIndex(a) ==
    IF \E i \in 1..Len(state_abbrs) : state_abbrs[i] = a
    THEN CHOOSE i \in 1..Len(state_abbrs) : state_abbrs[i] = a
    ELSE 0

\* a token the expansion accepts: a known abbreviation, or a range of two
\* known abbreviations with the first not after the second
ValidToken(t) ==
    \/ Len(t) = 1 /\ TableIndex(t[1]) > 0
    \/ Len(t) = 2 /\ TableIndex(t[1]) > 0 /\ TableIndex(t[1]) <= TableIndex(t[2])

\* a token the expansion rejects: an unknown abbreviation, a range with an
\* unknown endpoint, a reversed range
RejectedToken(t) ==
    \/ Len(t) = 1 /\ TableIndex(t[1]) = 0
    \/ Len(t) = 2 /\ (TableIndex(t[1]) = 0 \/ TableIndex(t[2]) = 0)
    \/ Len(t) = 2 /\ TableIndex(t[1]) > TableIndex(t[2])

\* the first and last position of the table a valid token stands for
FirstOf(t) == TableIndex(t[1])

LastOf(t) == TableIndex(t[Len(t)])

\* the number of states the first n tokens stand for
RECURSIVE Before(_, _)
Before(tokens, n) ==
    IF n = 0 THEN 0
    ELSE Before(tokens, n - 1) + LastOf(tokens[n]) - FirstOf(tokens[n]) + 1

\* list is the tokens expanded in order, each to its inclusive run of the table
IsExpansion(list, tokens) ==
    /\ Len(list) = Before(tokens, Len(tokens))
    /\ \A n \in 1..Len(tokens) :
          \A k \in 0..(LastOf(tokens[n]) - FirstOf(tokens[n])) :
              list[Before(tokens, n - 1) + k + 1] = state_abbrs[FirstOf(tokens[n]) + k]

\* C27: when every token is a known abbreviation or a range of known
\* abbreviations in table order, the list of states is the tokens expanded
\* in input order, a range to the inclusive run of the table from its first
\* to its last abbreviation; when a token is an unknown abbreviation, a
\* range with an unknown endpoint or a reversed range, main returns and no
\* state is ever processed.
C27_ExpandStateRanges ==
    [][/\ (pc = "args" /\ pc' # "args") =>
             /\ (\A n \in 1..Len(args_state) : ValidToken(args_state[n])) =>
                    /\ pc' = "start"
                    /\ IsExpansion(states_to_process', args_state)
             /\ (\E n \in 1..Len(args_state) : RejectedToken(args_state[n])) =>
                    pc' = "returned"
       /\ pc = "returned" =>
             /\ pc' = "returned"
             /\ state_i' = 0 /\ runs' = <<>> /\ merged_data' = <<>>
       /\ pc' = "returned" => state_i' = 0 /\ runs' = <<>> /\ merged_data' = <<>>]_vars

\* AZ and the range AL..AZ, processed in that order
C27_Witness ==
    /\ args_state = <<<<"AZ">>, <<"AL", "AZ">>>>
    /\ states_to_process = <<"AZ", "AL", "AK", "AZ">>
    /\ MainEnded
    /\ StatesOf(runs) = states_to_process

C28_Block(recs, housing20, properties) ==
    LET acc == Aggregate(recs)
        pre == [code \in Classes |-> TierCounts(acc.location_max_speeds, code)]
    IN /\ properties.Residential_Underserved = pre["R"].underserved
       /\ properties.Residential_Served = pre["R"].served
       /\ OutCounts(properties, "X") = pre["X"]
       /\ OutCounts(properties, "B") = pre["B"]
       /\ properties.Total_Locations = Cardinality(acc.location_ids)
       /\ \A a \in TechAbbrs : properties[a] = acc.tech_map[a]
       /\ properties.Residential_Unserved >= pre["R"].unserved
       /\ Total(OutCounts(properties, "R")) = Max(Total(pre["R"]), housing20)

\* C28: reconciliation changes residential_unserved only and never lowers
\* it: residential underserved and served, the six other counts,
\* total_locations and the technology map are as before reconciliation, the
\* returned residential_unserved is at least its value before, and the
\* returned residential sum is the larger of the sum before and housing20.
C28_ReconciliationFrame ==
    [][Assembled =>
         \A n \in 1..Len(merged_data) :
            C28_Block(merged_data[n].properties.bdc_locations,
                      merged_data[n].properties.HOUSING20,
                      merged_data'[n].properties)]_vars

\* three housing units, a residential location underserved and a business
\* location unserved
C28_Witness ==
    /\ pc = "written"
    /\ FeatureOf(1).properties.HOUSING20 = MaxHousing
    /\ FeatureOf(1).properties.Residential_Underserved = 1
    /\ FeatureOf(1).properties.Residential_Unserved = MaxHousing - 1
    /\ FeatureOf(1).properties.Business_Unserved = 1
    /\ FeatureOf(1).properties.Total_Locations = 2
    /\ FeatureOf(1).properties.Copper # None

\* the records of recs in the order given by the permutation p
Reordered(recs, p) == [i \in 1..Len(recs) |-> recs[p[i]]]

\* total_locations and the nine counts returned for recs, or the exception
CountsOf(recs, housing20) ==
    LET t == transform_bdc_locations(recs, housing20)
    IN IF t.raised # "no" THEN [raised |-> t.raised]
       ELSE [raised |-> "no", total |-> t.total_locations,
             nine |-> NineCountsOf(recs, housing20)]

\* the last record of location l in recs
LastRecord(recs, l) ==
    LET idx == {j \in 1..Len(recs) : recs[j].location_id = l}
    IN recs[CHOOSE i \in idx : \A j \in idx : i >= j]

\* in both orders every location has the same last record among those with
\* an integer speed
SameLastRecords(recs, other) ==
    \A l \in LocationsOf(SelectSeq(recs, ValidSpeed)) :
        LastRecord(SelectSeq(recs, ValidSpeed), l) =
            LastRecord(SelectSeq(other, ValidSpeed), l)

C29_Block(recs, other, housing20) ==
    /\ CountsOf(other, housing20).raised = CountsOf(recs, housing20).raised
    /\ CountsOf(recs, housing20).raised = "no" =>
          /\ CountsOf(other, housing20).total = CountsOf(recs, housing20).total
          /\ SameLastRecords(recs, other) =>
                CountsOf(other, housing20).nine = CountsOf(recs, housing20).nine

C30_AssemblyIdempotent ==
    pc = "written" =>
        \A n \in 1..Len(merged_data) :
            LET once == merged_data[n].properties
                again == AssembleAll(merged_data)[n].properties
            IN /\ \A a \in TechAbbrs : again[a] = once[a]
               /\ again.Total_Locations = once.Total_Locations
               /\ NineCounts(again) = NineCounts(once)

====
